---- MODULE Spec2Model ----
(***************************************************************************)
(* Model of the distribution engine of luminosity (src/distribution.go):   *)
(* the DistributionEntry / DistributionList / DistributionMap types, the   *)
(* merge algorithm, and the query adapter that turns the rows of a store   *)
(* cursor into a DistributionList.                                         *)
(*                                                                         *)
(* Go pointers to DistributionEntry are addresses into `heap`; a           *)
(* DistributionList is a sequence of addresses, a DistributionMap a        *)
(* function from labels to addresses.  Strings are sequences of byte       *)
(* values, compared as Go compares strings.                                *)
(***************************************************************************)
EXTENDS Integers, Sequences, FiniteSets, TLC

\* ----------------------------------------------------------------------
\* Bounds of the model
\* ----------------------------------------------------------------------

\* Total number of entries over all the lists of one call.
MaxEntries == 3

\* The numbers of lists one call passes: none, a, (a, b) or (a, b, c).
Arities == {0, 1, 2, 3}

\* Photos in the catalog of the aperture query.
MaxPhotos == 3

\* Rows in the result of a query read with the default convertor.
MaxRows == 3

\* Calls of queryDistribution in one run.
MaxCalls == 2

\* "A", "AB", "B": a label, a label it is a proper prefix of, and a third.
Labels == {<<65>>, <<65, 66>>, <<66>>}

\* Ids the store hands out; 0 stands for "not applicable".
Ids == {0, 7}

Counts == {1, 2}

\* ----------------------------------------------------------------------
\* Distribution types and utilities
\* ----------------------------------------------------------------------

DistributionEntry == [Id : Ids, Label : Labels, Count : Nat]

\* DistributionMap{}: the empty, writable map (label -> address).
EmptyMap == [l \in {} |-> 0]

\* Go's nil map, the zero value of a DistributionMap: it has no keys, and a
\* write to it panics.  A map value is [nil, at]: at holds the keys.
NilMap == [nil |-> TRUE, at |-> EmptyMap]

\* Go's < on strings: bytewise lexicographic, a proper prefix is smaller.
RECURSIVE StrLess(_, _)
StrLess(s, t) ==
    IF t = <<>> THEN FALSE
    ELSE IF s = <<>> THEN TRUE
    ELSE IF Head(s) = Head(t) THEN StrLess(Tail(s), Tail(t))
    ELSE Head(s) < Head(t)

\* copyDistributionEntry: a new object holding the three fields of d.
copyDistributionEntry(d) == [Id |-> d.Id, Count |-> d.Count, Label |-> d.Label]

\* The entries of dists in the order the two nested range loops visit them.
RECURSIVE Flatten(_)
Flatten(ds) == IF ds = <<>> THEN <<>> ELSE Head(ds) \o Flatten(Tail(ds))

\* The map m with key k set to the address v.
MapSet(m, k, v) == [l \in DOMAIN m \cup {k} |-> IF l = k THEN v ELSE m[l]]

\* MergeStep with the count of the later entry written over the target's.
MergeStepOverwrite(st, a) ==
    LET entry == st.heap[a] IN
    IF entry.Label \in DOMAIN st.merged
    THEN [heap   |-> [st.heap EXCEPT ![st.merged[entry.Label]].Count = entry.Count],
          merged |-> st.merged]
    ELSE [heap   |-> Append(st.heap, copyDistributionEntry(entry)),
          merged |-> MapSet(st.merged, entry.Label, Len(st.heap) + 1)]

\* MergeStep counting the later entry as one occurrence.
MergeStepOccurrences(st, a) ==
    LET entry == st.heap[a] IN
    IF entry.Label \in DOMAIN st.merged
    THEN [heap   |-> [st.heap EXCEPT ![st.merged[entry.Label]].Count = @ + 1],
          merged |-> st.merged]
    ELSE [heap   |-> Append(st.heap, copyDistributionEntry(entry)),
          merged |-> MapSet(st.merged, entry.Label, Len(st.heap) + 1)]

\* MergeStep also taking the Id of the later entry.
MergeStepLastId(st, a) ==
    LET entry == st.heap[a] IN
    IF entry.Label \in DOMAIN st.merged
    THEN [heap   |-> [st.heap EXCEPT ![st.merged[entry.Label]] =
                         [@ EXCEPT !.Count = @ + entry.Count, !.Id = entry.Id]],
          merged |-> st.merged]
    ELSE [heap   |-> Append(st.heap, copyDistributionEntry(entry)),
          merged |-> MapSet(st.merged, entry.Label, Len(st.heap) + 1)]

\* MergeStep keeping the pointer to the first entry instead of a copy.
MergeStepNoCopy(st, a) ==
    LET entry == st.heap[a] IN
    IF entry.Label \in DOMAIN st.merged
    THEN [heap   |-> [st.heap EXCEPT ![st.merged[entry.Label]].Count = @ + entry.Count],
          merged |-> st.merged]
    ELSE [heap   |-> st.heap,
          merged |-> MapSet(st.merged, entry.Label, a)]

\* One iteration of the inner loop of MergeDistributions on the entry at
\* address a: st is [heap, merged].
MergeStep(st, a) ==
    LET entry == st.heap[a] IN
    IF entry.Label \in DOMAIN st.merged
    THEN LET target == st.merged[entry.Label] IN
         [heap   |-> [st.heap EXCEPT ![target].Count = @ + entry.Count],
          merged |-> st.merged]
    ELSE [heap   |-> Append(st.heap, copyDistributionEntry(entry)),
          merged |-> MapSet(st.merged, entry.Label, Len(st.heap) + 1)]

\* The two nested loops of MergeDistributions over the addresses in as.
RECURSIVE MergeLoop(_, _)
MergeLoop(st, as) ==
    IF as = <<>> THEN st ELSE MergeLoop(MergeStep(st, Head(as)), Tail(as))

\* The orders in which `range m` may visit the keys of a map: Go leaves the
\* order unspecified, so every arrangement of the keys is possible.
KeyOrders(m) ==
    LET n == Cardinality(DOMAIN m) IN
    {o \in [1..n -> DOMAIN m] : \A i, j \in 1..n : i # j => o[i] # o[j]}

\* DistributionMap.ToList, visiting the keys in the order o.
ToList(m, o) == [i \in 1..Len(o) |-> m[o[i]]]

\* DistributionList.Less and Swap on a list l of addresses into heap h.
Less(h, l, i, j) == StrLess(h[l[i]].Label, h[l[j]].Label)

Swap(l, i, j) == [l EXCEPT ![i] = l[j], ![j] = l[i]]

\* sort.Sort(list): for the lengths of this model (below 12) the library
\* runs an insertion sort through Less and Swap.  Positions are 1-based.
RECURSIVE SortInner(_, _, _)
SortInner(h, l, j) ==
    IF j > 1 /\ Less(h, l, j, j - 1)
    THEN SortInner(h, Swap(l, j, j - 1), j - 1)
    ELSE l

RECURSIVE SortFrom(_, _, _)
SortFrom(h, l, i) ==
    IF i > Len(l) THEN l ELSE SortFrom(h, SortInner(h, l, i), i + 1)

Sort(h, l) == SortFrom(h, l, 2)

\* MergeFinish without the sort.
MergeFinishUnsorted(h, m, o) == ToList(m, o)

\* What MergeDistributions does after the loops: flatten and sort.
MergeFinish(h, m, o) == Sort(h, ToList(m, o))

\* MergeDistributions(dists...): every outcome the call can have, one for
\* each order in which ToList may visit the map.  An outcome is the heap
\* after the call, the argument lists after the call and the returned list.
MergeDistributions(h, ds) ==
    LET st == MergeLoop([heap |-> h, merged |-> EmptyMap], Flatten(ds)) IN
    {[heap |-> st.heap, dists |-> ds, list |-> MergeFinish(st.heap, st.merged, o)] :
        o \in KeyOrders(st.merged)}

\* l.Merge(dists...): the receiver is appended after the arguments.
Merge(h, l, ds) == MergeDistributions(h, Append(ds, l))

\* One iteration of the loop of ToMap: the named result m is never made,
\* so it is the nil map, and the assignment to an entry of it panics.
ToMapStep(st, a) ==
    IF st.panic THEN st
    ELSE IF st.m.nil THEN [st EXCEPT !.panic = TRUE]
    ELSE LET d == st.heap[a] IN
         [heap  |-> Append(st.heap, copyDistributionEntry(d)),
          m     |-> [nil |-> FALSE,
                     at  |-> MapSet(st.m.at, d.Label, Len(st.heap) + 1)],
          panic |-> FALSE]

RECURSIVE ToMapLoop(_, _)
ToMapLoop(st, as) ==
    IF as = <<>> THEN st ELSE ToMapLoop(ToMapStep(st, Head(as)), Tail(as))

\* l.ToMap(): the heap after the call, the map returned, and whether the
\* call panicked instead of returning.
ToMap(h, l) == ToMapLoop([heap |-> h, m |-> NilMap, panic |-> FALSE], l)

\* ----------------------------------------------------------------------
\* State
\* ----------------------------------------------------------------------

VARIABLES
    heap,    \* the DistributionEntry objects: address -> entry
    pre,     \* the heap as it was when the last call was made
    dists,   \* the DistributionLists the caller holds, each a list of addresses
    op,      \* the call the caller made last ("input": none yet)
    args,    \* the lists that call passed to MergeDistributions, in order
    ret,     \* the list that call returned
    alt,     \* the list the regrouped or reordered call returned
    retMap,  \* the map ToMap returned
    panic    \* whether the call panicked instead of returning

mergeVars == <<heap, pre, dists, op, args, ret, alt, retMap, panic>>

VARIABLES
    kind,       \* the named query asked for: "aperture" or "default"
    photos,     \* the aperture column of AgHarvestedExifMetadata, a row each
    table,      \* the rows the store answers the default query with
    pc,         \* where queryDistribution stands ("idle": not running)
    calls,      \* calls of queryDistribution made so far
    cursors,    \* every cursor the store handed out: [open, closes]
    rows,       \* the rows of the cursor being read
    pos,        \* how many rows Next has made current
    rowsErr,    \* whether the cursor met a store error (rows.Err() # nil)
    scanned,    \* how many rows were given to the convertor
    entries,    \* the list convertDistribution is building
    result      \* what the last call returned: [list, err]

queryVars == <<kind, photos, table, pc, calls, cursors, rows, pos, rowsErr,
               scanned, entries, result>>

vars == <<mergeVars, queryVars>>

\* ----------------------------------------------------------------------
\* Value converter and the rows of the store
\* ----------------------------------------------------------------------

\* A column value of the store: SQLite columns are dynamically typed, so a
\* column read as a number may hold a number, a text or NULL.
Real(v) == [t |-> "real", v |-> v]

Integer(v) == [t |-> "int", v |-> v]

Text == [t |-> "text", v |-> 0]

Null == [t |-> "null", v |-> 0]

\* A label column: a string, or NULL.
Str(s) == [t |-> "str", v |-> s]

\* The decimal digits of n, as a string.
RECURSIVE Digits(_)
Digits(n) == IF n < 10 THEN <<48 + n>> ELSE Digits(n \div 10) \o <<48 + (n % 10)>>

\* 2^(r/16) for r in 0..15, in ten-thousandths: the product of the roots
\* 2^(1/2), 2^(1/4), 2^(1/8), 2^(1/16) that the bits of r select.
PowFraction(r) ==
    LET a == IF r >= 8 THEN 14142 ELSE 10000
        b == IF r % 8 >= 4 THEN (a * 11892) \div 10000 ELSE a
        c == IF r % 4 >= 2 THEN (b * 10905) \div 10000 ELSE b
    IN  IF r % 2 = 1 THEN (c * 10443) \div 10000 ELSE c

RECURSIVE PowTwo(_)
PowTwo(n) == IF n = 0 THEN 1 ELSE 2 * PowTwo(n - 1)

\* ApertureToFNumber: N = 2^(apex/2).  The APEX value is given in eighths
\* (apex = k/8) and the f-number comes back in ten-thousandths.
ApertureToFNumber(k) == PowTwo(k \div 16) * PowFraction(k % 16)

\* fmt.Sprintf("%.1f", f) for f in ten-thousandths: rounded to one decimal.
FormatF1(f) ==
    LET tenths == (f + 500) \div 1000 IN
    Digits(tenths \div 10) \o <<46>> \o <<48 + (tenths % 10)>>

\* The APEX aperture values of the catalog, in eighths: 0 and 1/8 both show
\* as "1.0", 7/8 and 1 both as "1.4", 2 as "2.0".
ApexValues == {0, 1, 7, 8, 16}

\* What the aperture column of a photo may hold.
ApertureColumn == {Real(k) : k \in ApexValues} \cup {Text, Null}

\* SQLite's order of column values: numbers by value, any text after them.
ColumnLess(x, y) ==
    \/ x.t = "real" /\ y.t = "text"
    \/ x.t = "real" /\ y.t = "real" /\ x.v < y.v

\* The values of set S in ascending order.
RECURSIVE Ascending(_)
Ascending(S) ==
    IF S = {} THEN <<>>
    ELSE LET m == CHOOSE x \in S : \A y \in S \ {x} : ColumnLess(x, y) IN
         <<m>> \o Ascending(S \ {m})

\* SELECT aperture, count(aperture) FROM AgHarvestedExifMetadata
\* WHERE aperture is not null GROUP BY aperture ORDER BY aperture
ApertureQuery(ps) ==
    LET vals   == {ps[i] : i \in 1..Len(ps)} \ {Null}
        groups == Ascending(vals)
    IN  [g \in 1..Len(groups) |->
            [aperture |-> groups[g],
             count    |-> Cardinality({i \in 1..Len(ps) : ps[i] = groups[g]})]]

\* The rows a query read with the default convertor may return: an id, a
\* label that may be NULL, a count.
DefaultRows == [id : {Integer(7), Text}, label : {Str(<<65>>), Null}, count : Counts]

\* No error.
None == "nil"

\* A nil DistributionList, and the list append makes of a list and an entry.
NilList == [nil |-> TRUE, items |-> <<>>]

AppendEntry(l, e) == [nil |-> FALSE, items |-> Append(l.items, e)]

\* defaultDistributionConvertor: Scan into (int64, null.String, int64).
defaultDistributionConvertor(row) ==
    IF row.id.t # "int"
    THEN [entry |-> Null, err |-> "scan"]
    ELSE [entry |-> [Id    |-> row.id.v,
                     Label |-> IF row.label.t = "null" THEN <<>> ELSE row.label.v,
                     Count |-> row.count],
          err   |-> None]

\* The convertor of GetApertureDistribution: Scan into (float64, int64).
apertureConvertor(row) ==
    IF row.aperture.t # "real"
    THEN [entry |-> Null, err |-> "scan"]
    ELSE [entry |-> [Id    |-> 0,
                     Label |-> FormatF1(ApertureToFNumber(row.aperture.v)),
                     Count |-> row.count],
          err   |-> None]

\* The convertor and the rows of the named query k.
Convertor(k, row) ==
    IF k = "aperture" THEN apertureConvertor(row) ELSE defaultDistributionConvertor(row)

QueryRows(k) == IF k = "aperture" THEN ApertureQuery(photos) ELSE table

\* What every call starts from.
NoResult == [list |-> NilList, err |-> None]

\* The query adapter before its first call, with nothing in the store.
QueryAtRest ==
    /\ kind = "none"
    /\ photos = <<>>
    /\ table = <<>>
    /\ pc = "idle"
    /\ calls = 0
    /\ cursors = <<>>
    /\ rows = <<>>
    /\ pos = 0
    /\ rowsErr = FALSE
    /\ scanned = 0
    /\ entries = NilList
    /\ result = NoResult

\* ----------------------------------------------------------------------
\* The caller's inputs
\* ----------------------------------------------------------------------

SeqsUpTo(S, n) == UNION {[1..k -> S] : k \in 0..n}

\* The entries a caller builds or a query returns.
InputEntries == [Id : Ids, Label : Labels, Count : Counts]

RECURSIVE SumSeq(_)
SumSeq(s) == IF s = <<>> THEN 0 ELSE Head(s) + SumSeq(Tail(s))

\* The ways to spread n entries over the lists of a call, in order.
Splits(n) == {lens \in UNION {[1..k -> 0..n] : k \in Arities} : SumSeq(lens) = n}

\* The lists of the given lengths, holding the addresses 1, 2, ... in order.
ListsOf(lens) ==
    [k \in 1..Len(lens) |->
        [i \in 1..lens[k] |-> SumSeq(SubSeq(lens, 1, k - 1)) + i]]

InitMerge ==
    /\ heap \in SeqsUpTo(InputEntries, MaxEntries)
    /\ \E lens \in Splits(Len(heap)) : dists = ListsOf(lens)
    /\ pre = <<>>
    /\ op = "input"
    /\ args = <<>>
    /\ ret = <<>>
    /\ alt = <<>>
    /\ retMap = NilMap
    /\ panic = FALSE
    /\ QueryAtRest

\* The merge API before its first call, with no lists.
MergeAtRest ==
    /\ heap = <<>>
    /\ pre = <<>>
    /\ dists = <<>>
    /\ op = "input"
    /\ args = <<>>
    /\ ret = <<>>
    /\ alt = <<>>
    /\ retMap = NilMap
    /\ panic = FALSE

\* ----------------------------------------------------------------------
\* Calls of the merge API
\* ----------------------------------------------------------------------

\* MergeDistributions(dists...)
CallMergeDistributions ==
    /\ op = "input"
    /\ pre' = heap
    /\ \E r \in MergeDistributions(heap, dists) :
          /\ heap' = r.heap
          /\ dists' = r.dists
          /\ ret' = r.list
    /\ op' = "MergeDistributions"
    /\ args' = dists
    /\ UNCHANGED <<alt, retMap, panic, queryVars>>

\* MergeDistributions(a, b) and MergeDistributions(b, a)
CallMergeReordered ==
    /\ op = "input"
    /\ pre' = heap
    /\ Len(dists) = 2
    /\ \E r \in MergeDistributions(heap, dists) :
       \E q \in MergeDistributions(r.heap, <<r.dists[2], r.dists[1]>>) :
          /\ heap' = q.heap
          /\ dists' = <<q.dists[2], q.dists[1]>>
          /\ ret' = r.list
          /\ alt' = q.list
    /\ op' = "Reordered"
    /\ args' = dists
    /\ UNCHANGED <<retMap, panic, queryVars>>

\* MergeDistributions(a, b, c) and MergeDistributions(MergeDistributions(a, b), c)
CallMergeNestedLeft ==
    /\ op = "input"
    /\ pre' = heap
    /\ Len(dists) = 3
    /\ \E r \in MergeDistributions(heap, dists) :
       \E i \in MergeDistributions(r.heap, <<r.dists[1], r.dists[2]>>) :
       \E q \in MergeDistributions(i.heap, <<i.list, r.dists[3]>>) :
          /\ heap' = q.heap
          /\ dists' = <<i.dists[1], i.dists[2], q.dists[2]>>
          /\ ret' = r.list
          /\ alt' = q.list
    /\ op' = "NestedLeft"
    /\ args' = dists
    /\ UNCHANGED <<retMap, panic, queryVars>>

\* MergeDistributions(a, b, c) and MergeDistributions(a, MergeDistributions(b, c))
CallMergeNestedRight ==
    /\ op = "input"
    /\ pre' = heap
    /\ Len(dists) = 3
    /\ \E r \in MergeDistributions(heap, dists) :
       \E i \in MergeDistributions(r.heap, <<r.dists[2], r.dists[3]>>) :
       \E q \in MergeDistributions(i.heap, <<r.dists[1], i.list>>) :
          /\ heap' = q.heap
          /\ dists' = <<q.dists[1], i.dists[1], i.dists[2]>>
          /\ ret' = r.list
          /\ alt' = q.list
    /\ op' = "NestedRight"
    /\ args' = dists
    /\ UNCHANGED <<retMap, panic, queryVars>>

\* dists[1].Merge(dists[2], ...)
CallMerge ==
    /\ op = "input"
    /\ pre' = heap
    /\ Len(dists) >= 1
    /\ \E r \in Merge(heap, Head(dists), Tail(dists)) :
          /\ heap' = r.heap
          /\ dists' = <<r.dists[Len(dists)]>> \o SubSeq(r.dists, 1, Len(dists) - 1)
          /\ ret' = r.list
    /\ op' = "Merge"
    /\ args' = Append(Tail(dists), Head(dists))
    /\ UNCHANGED <<alt, retMap, panic, queryVars>>

\* MergeDistributions(l, l) for the caller's first list
CallMergeSelf ==
    /\ op = "input"
    /\ pre' = heap
    /\ Len(dists) >= 1
    /\ \E r \in MergeDistributions(heap, <<dists[1], dists[1]>>) :
          /\ heap' = r.heap
          /\ dists' = [dists EXCEPT ![1] = r.dists[2]]
          /\ ret' = r.list
    /\ op' = "MergeSelf"
    /\ args' = <<dists[1], dists[1]>>
    /\ UNCHANGED <<alt, retMap, panic, queryVars>>

\* l.ToMap() for the caller's first list
CallToMap ==
    /\ op = "input"
    /\ pre' = heap
    /\ Len(dists) >= 1
    /\ LET r == ToMap(heap, dists[1]) IN
          /\ heap' = r.heap
          /\ retMap' = r.m
          /\ panic' = r.panic
    /\ op' = "ToMap"
    /\ args' = <<dists[1]>>
    /\ UNCHANGED <<dists, ret, alt, queryVars>>

\* The merge calls on their own.
NextMerge ==
    \/ CallMergeDistributions
    \/ CallMerge
    \/ CallMergeSelf

SpecMerge == InitMerge /\ [][NextMerge]_vars

\* The same merge written in two ways.
NextAlgebra ==
    \/ CallMergeReordered
    \/ CallMergeNestedLeft
    \/ CallMergeNestedRight

SpecAlgebra == InitMerge /\ [][NextAlgebra]_vars

\* The conversion of a list to a map.
NextToMap == CallToMap

SpecToMap == InitMerge /\ [][NextToMap]_vars

\* ----------------------------------------------------------------------
\* The query adapter
\* ----------------------------------------------------------------------

InitQuery ==
    /\ MergeAtRest
    /\ \/ /\ kind = "aperture"
          /\ photos \in SeqsUpTo(ApertureColumn, MaxPhotos)
          /\ table = <<>>
       \/ /\ kind = "default"
          /\ photos = <<>>
          /\ table \in SeqsUpTo(DefaultRows, MaxRows)
    /\ pc = "idle"
    /\ calls = 0
    /\ cursors = <<>>
    /\ rows = <<>>
    /\ pos = 0
    /\ rowsErr = FALSE
    /\ scanned = 0
    /\ entries = NilList
    /\ result = NoResult

\* The cursor being read is the one handed out last.
Current == Len(cursors)

\* rows.Close(): releases the cursor; closing a closed cursor does nothing
\* more.  closes counts the calls queryDistribution makes.
Close(c) == [open |-> FALSE, closes |-> c.closes + 1]

\* What database/sql does to a cursor when Next finds no further row or
\* meets an error: it releases it.
AutoClose(c) == [c EXCEPT !.open = FALSE]

\* queryDistribution without the deferred Close.
DeferredCloseForgotten(c) == c

\* defer rows.Close(), run when queryDistribution returns.
DeferredClose(c) == Close(c)

\* convertDistribution handing back, with the error, what it had converted.
ReturnOnRowErrorPartial(es, err) == [list |-> es, err |-> err]

\* convertDistribution when the convertor fails: return nil, err.
ReturnOnRowError(es, err) == [list |-> NilList, err |-> err]

\* convertDistribution after the loop: return entries, nil.
ReturnAfterLoop(es) == [list |-> es, err |-> None]

\* A catalog query is called: GetApertureDistribution or one of the queries
\* read with the default convertor calls queryDistribution.
CallQuery ==
    /\ pc = "idle"
    /\ calls < MaxCalls
    /\ calls' = calls + 1
    /\ pc' = "query"
    /\ rows' = <<>>
    /\ pos' = 0
    /\ rowsErr' = FALSE
    /\ scanned' = 0
    /\ entries' = NilList
    /\ result' = NoResult
    /\ UNCHANGED <<kind, photos, table, cursors, mergeVars>>

\* c.db.query(...) fails: queryDistribution returns nil and the error.
QueryRejected ==
    /\ pc = "query"
    /\ result' = [list |-> NilList, err |-> "query"]
    /\ pc' = "idle"
    /\ UNCHANGED <<kind, photos, table, calls, cursors, rows, pos, rowsErr,
                   scanned, entries, mergeVars>>

\* c.db.query(...) hands out a cursor; its Close is deferred.
QueryOpened ==
    /\ pc = "query"
    /\ cursors' = Append(cursors, [open |-> TRUE, closes |-> 0])
    /\ rows' = QueryRows(kind)
    /\ pc' = "next"
    /\ UNCHANGED <<kind, photos, table, calls, pos, rowsErr, scanned, entries,
                   result, mergeVars>>

\* rows.Next() makes the next row current.
NextRow ==
    /\ pc = "next"
    /\ pos < Len(rows)
    /\ pos' = pos + 1
    /\ pc' = "convert"
    /\ UNCHANGED <<kind, photos, table, calls, cursors, rows, rowsErr, scanned,
                   entries, result, mergeVars>>

\* rows.Next() finds no further row: the loop ends.
NextExhausted ==
    /\ pc = "next"
    /\ pos = Len(rows)
    /\ cursors' = [cursors EXCEPT ![Current] = AutoClose(@)]
    /\ result' = ReturnAfterLoop(entries)
    /\ pc' = "defer"
    /\ UNCHANGED <<kind, photos, table, calls, rows, pos, rowsErr, scanned,
                   entries, mergeVars>>

\* rows.Next() meets a store error: it returns false as well, and the
\* error is kept for rows.Err(), which convertDistribution does not read.
NextFailed ==
    /\ pc = "next"
    /\ rowsErr' = TRUE
    /\ cursors' = [cursors EXCEPT ![Current] = AutoClose(@)]
    /\ result' = ReturnAfterLoop(entries)
    /\ pc' = "defer"
    /\ UNCHANGED <<kind, photos, table, calls, rows, pos, scanned, entries,
                   mergeVars>>

\* fn(rows) on the current row: the entry is appended, or the call ends.
ConvertRow ==
    /\ pc = "convert"
    /\ scanned' = scanned + 1
    /\ LET r == Convertor(kind, rows[pos]) IN
       IF r.err # None
       THEN /\ result' = ReturnOnRowError(entries, r.err)
            /\ pc' = "defer"
            /\ UNCHANGED entries
       ELSE /\ entries' = AppendEntry(entries, r.entry)
            /\ pc' = "next"
            /\ UNCHANGED result
    /\ UNCHANGED <<kind, photos, table, calls, cursors, rows, pos, rowsErr,
                   mergeVars>>

\* queryDistribution returns: the deferred Close runs.
Return ==
    /\ pc = "defer"
    /\ cursors' = [cursors EXCEPT ![Current] = DeferredClose(@)]
    /\ pc' = "idle"
    /\ UNCHANGED <<kind, photos, table, calls, rows, pos, rowsErr, scanned,
                   entries, result, mergeVars>>

NextQuery ==
    \/ CallQuery
    \/ QueryRejected
    \/ QueryOpened
    \/ NextRow
    \/ NextExhausted
    \/ NextFailed
    \/ ConvertRow
    \/ Return

SpecQuery == InitQuery /\ [][NextQuery]_vars

\* ----------------------------------------------------------------------
\* Vocabulary of the properties
\* ----------------------------------------------------------------------

Range(l) == {l[i] : i \in 1..Len(l)}

MergeOps == {"MergeDistributions", "Merge", "MergeSelf"}

AlgebraOps == {"Reordered", "NestedLeft", "NestedRight"}

\* The entries passed to the last call, in the order they were passed.
Passed == Flatten(args)

\* The labels of the entries of list l in heap h.
LabelsOf(h, l) == {h[a].Label : a \in Range(l)}

\* The sum of the counts of the entries of l in h that carry label lab.
RECURSIVE SumCount(_, _, _)
SumCount(h, l, lab) ==
    IF l = <<>> THEN 0
    ELSE (IF h[Head(l)].Label = lab THEN h[Head(l)].Count ELSE 0)
         + SumCount(h, Tail(l), lab)

\* The first and the last position of l whose entry carries label lab.
FirstAt(h, l, lab) == CHOOSE i \in 1..Len(l) :
    h[l[i]].Label = lab /\ \A j \in 1..(i - 1) : h[l[j]].Label # lab

LastAt(h, l, lab) == CHOOSE i \in 1..Len(l) :
    h[l[i]].Label = lab /\ \A j \in (i + 1)..Len(l) : h[l[j]].Label # lab

\* The Label-to-Count mapping of list l in heap h, as a set of pairs.
CountMap(h, l) == {<<h[a].Label, h[a].Count>> : a \in Range(l)}

UniqueLabels(h, l) ==
    \A i, j \in 1..Len(l) : i # j => h[l[i]].Label # h[l[j]].Label

\* ----------------------------------------------------------------------
\* Properties of the merge
\* ----------------------------------------------------------------------

\* C1: the list MergeDistributions returns holds exactly one entry for each
\* label that occurs in the lists passed and none for any other label, the
\* Count of that entry is the sum of the Counts of all the entries passed
\* with that label, and a call with no lists returns the empty list without
\* panicking.
C1_MergeSumsCounts ==
    op \in MergeOps =>
        /\ ~panic
        /\ LabelsOf(heap, ret) = LabelsOf(pre, Passed)
        /\ UniqueLabels(heap, ret)
        /\ \A a \in Range(ret) :
              heap[a].Count = SumCount(pre, Passed, heap[a].Label)
        /\ (args = <<>> => ret = <<>>)

\* A call passed a list that repeats a label next to another label.
C1_Witness ==
    /\ op = "MergeDistributions"
    /\ \E k \in 1..Len(args) : ~UniqueLabels(pre, args[k])
    /\ Len(ret) = 2
    /\ \E a \in Range(ret) : \A b \in Range(Passed) : heap[a].Count > pre[b].Count

\* C2: the Label-to-Count mapping of a merge does not depend on the order
\* in which the lists are passed, nor on whether they are merged at once or
\* two at a time, from the left or from the right.
C2_CommutativeAssociative ==
    op \in AlgebraOps => CountMap(heap, ret) = CountMap(heap, alt)

\* Three non-empty lists, two of which share a label, merged two at a time.
C2_Witness ==
    /\ op = "NestedLeft"
    /\ \A k \in 1..3 : args[k] # <<>>
    /\ Len(alt) = 2
    /\ pre[args[1][1]].Label # pre[args[2][1]].Label

\* C3: the list a merge returns is strictly ascending by Label in the order
\* of Go's string comparison, so no label appears twice.
C3_SortedByLabel ==
    op \in MergeOps =>
        \A i, j \in 1..Len(ret) :
            i < j => StrLess(heap[ret[i]].Label, heap[ret[j]].Label)

\* Merge returned three labels that were passed in descending order.
C3_Witness ==
    /\ op = "Merge"
    /\ Len(ret) = 3
    /\ Len(Passed) = 3
    /\ StrLess(pre[Passed[3]].Label, pre[Passed[2]].Label)
    /\ StrLess(pre[Passed[2]].Label, pre[Passed[1]].Label)

\* C4: the Id of a merged entry is the Id of the first entry passed with its
\* label, and merging a list of unique labels with itself returns, for every
\* entry of the list, its Id and Label with twice its Count.
C4_IdOfFirstOccurrence ==
    op \in MergeOps =>
        /\ \A a \in Range(ret) :
              heap[a].Id = pre[Passed[FirstAt(pre, Passed, heap[a].Label)]].Id
        /\ (op = "MergeSelf" /\ UniqueLabels(pre, args[1]) =>
              /\ Len(ret) = Len(args[1])
              /\ \A b \in Range(args[1]) : \E a \in Range(ret) :
                    heap[a] = [Id |-> pre[b].Id, Label |-> pre[b].Label,
                               Count |-> 2 * pre[b].Count])

\* A label was passed twice, with different Ids.
C4_Witness ==
    /\ op = "MergeDistributions"
    /\ \E i, j \in 1..Len(Passed) :
          /\ i < j
          /\ pre[Passed[i]].Label = pre[Passed[j]].Label
          /\ pre[Passed[i]].Id # pre[Passed[j]].Id
    /\ Len(ret) >= 1

\* C5: a merge leaves every entry that existed before the call as it was,
\* leaves the caller's lists as they were, and returns only entries that
\* did not exist before the call.
C5_InputsUntouched ==
    [][op' \in MergeOps =>
          /\ \A a \in DOMAIN heap : heap'[a] = heap[a]
          /\ dists' = dists
          /\ \A a \in Range(ret') : a \notin DOMAIN heap]_vars

\* A list that repeats a label was merged with itself.
C5_Witness ==
    /\ op = "MergeSelf"
    /\ ~UniqueLabels(pre, args[1])
    /\ Len(ret) >= 1

\* C6: ToMap returns normally for every list, and the map it returns has
\* the labels of the list as its keys, each mapped to a copy of the last
\* entry of the list with that label.
C6_ToMapLastWins ==
    op = "ToMap" =>
        /\ ~panic
        /\ DOMAIN retMap.at = LabelsOf(pre, args[1])
        /\ \A lab \in DOMAIN retMap.at :
              /\ retMap.at[lab] \notin DOMAIN pre
              /\ heap[retMap.at[lab]] =
                    pre[args[1][LastAt(pre, args[1], lab)]]

\* ----------------------------------------------------------------------
\* Properties of the query adapter
\* ----------------------------------------------------------------------

\* The last call of queryDistribution has returned.
Returned == pc = "idle" /\ calls > 0

\* The convertor fails on row i of the cursor.
RowFails(i) == Convertor(kind, rows[i]).err # None

\* The label GetApertureDistribution shows for a column value.
ShownAs(x) == FormatF1(ApertureToFNumber(x.v))

\* C7: when the convertor fails on a row, the call stops at that row and
\* returns the error with a nil list: nothing converted from the earlier
\* rows is returned and no later row is converted.
C7_RowErrorAborts ==
    Returned /\ (\E i \in 1..scanned : RowFails(i)) =>
        /\ result = [list |-> NilList, err |-> "scan"]
        /\ RowFails(scanned)
        /\ \A i \in 1..(scanned - 1) : ~RowFails(i)
        /\ pos = scanned

\* The convertor failed on the second of three rows.
C7_Witness ==
    /\ Returned
    /\ result.err = "scan"
    /\ scanned = 2
    /\ Len(rows) = 3
    /\ ~entries.nil

\* C8: every cursor the store handed out is released by the call that
\* opened it, once, on every way out of it: no cursor of an earlier call is
\* open, and none is open once the call has returned.
C8_CursorsReleased ==
    /\ Len(cursors) <= calls
    /\ \A c \in 1..Len(cursors) :
          (c < Current \/ pc \in {"idle", "query"}) =>
              ~cursors[c].open /\ cursors[c].closes = 1

\* Two calls opened a cursor each, and the second ended on a row error.
C8_Witness ==
    /\ Returned
    /\ calls = 2
    /\ Len(cursors) = 2
    /\ result.err = "scan"
    /\ scanned >= 1

\* C9: a call returns a nil error only when every row of the result was
\* read and converted; a store error met while reading the rows is
\* returned as an error.
C9_NilErrorMeansAllRows ==
    Returned /\ result.err = None =>
        /\ ~rowsErr
        /\ scanned = Len(rows)
        /\ Len(result.list.items) = Len(rows)

\* C10: the list GetApertureDistribution returns holds no label twice, and
\* the Count of an entry is the number of photos whose aperture shows as
\* its label.
C10_ApertureLabelsUnique ==
    Returned /\ kind = "aperture" /\ result.err = None /\ ~rowsErr =>
        LET l == result.list.items IN
        /\ \A i, j \in 1..Len(l) : i # j => l[i].Label # l[j].Label
        /\ \A i \in 1..Len(l) :
              l[i].Count = Cardinality({p \in 1..Len(photos) :
                  photos[p].t = "real" /\ ShownAs(photos[p]) = l[i].Label})

====
